---- MODULE Spec2Model ----
(***************************************************************************)
(* A model of the chat assistant of u2oobCaption: the Completion Client    *)
(* (lib/ai/chain.ts, generateCompletionWithTokens and extractTokenUsage),  *)
(* the two HTTP endpoints (/api/ai/chat and /api/ai/stream) and the Convex *)
(* conversation store (convex/chat.ts), with the chat page that drives     *)
(* them (app/dashboard/ai/page.tsx).                                       *)
(*                                                                         *)
(* Text that the code searches, trims, truncates or re-cases is modelled   *)
(* as a sequence of one-character strings, so that includes(), substring() *)
(* and toLowerCase() are computed and not assumed.                         *)
(***************************************************************************)
EXTENDS Integers, Sequences, FiniteSets, TLC

VARIABLES
    \* ---- HTTP endpoints and Completion Client (one request at a time)
    pc,             \* position of the request handler
    endpoint,       \* "sync" (/api/ai/chat) or "stream" (/api/ai/stream)
    req,            \* the request body as received
    apiKey,         \* process.env.OPENAI_API_KEY is set
    calls,          \* outbound provider calls made for the current request
    modelResponse,  \* what model.invoke returned (local of complete)
    local,          \* text, tokenUsage, finishReason, responseTime of complete
    result,         \* what generateCompletionWithTokens returned
    resp,           \* the HTTP response
    stream,         \* the ReadableStream of the streaming endpoint
    \* ---- Conversation store
    messages,       \* table chatMessages, in creation order
    now,            \* the store's creation clock
    last,           \* the last store operation: arguments and outcome
    \* ---- Chat page (app/dashboard/ai/page.tsx)
    ui              \* the React state of the page and its submissions in flight

httpVars  == <<pc, endpoint, req, apiKey, calls, modelResponse, local, result, resp, stream>>
storeVars == <<messages, now, last, ui>>
vars      == <<httpVars, storeVars>>

----------------------------------------------------------------------------
(* Strings as sequences of characters *)

UpperChars == <<"A","B","C","D","E","F","G","H","I","J","K","L","M","N","O","P","Q","R","S","T","U","V","W","X","Y","Z">>
LowerChars == <<"a","b","c","d","e","f","g","h","i","j","k","l","m","n","o","p","q","r","s","t","u","v","w","x","y","z">>

toLowerCaseChar(c) ==
    IF \E i \in DOMAIN UpperChars : UpperChars[i] = c
    THEN LowerChars[CHOOSE i \in DOMAIN UpperChars : UpperChars[i] = c]
    ELSE c

toUpperCaseChar(c) ==
    IF \E i \in DOMAIN LowerChars : LowerChars[i] = c
    THEN UpperChars[CHOOSE i \in DOMAIN LowerChars : LowerChars[i] = c]
    ELSE c

\* String.prototype.toLowerCase
toLowerCase(s) == [i \in 1..Len(s) |-> toLowerCaseChar(s[i])]

\* String.prototype.includes: k occurs in s as a contiguous substring
includes(s, k) ==
    \E i \in 0..(Len(s) - Len(k)) : \A j \in 1..Len(k) : s[i + j] = k[j]

\* String.prototype.substring(0, n)
substring0(s, n) == IF Len(s) <= n THEN s ELSE SubSeq(s, 1, n)

WhiteSpace == {" ", "\n", "\t"}

RECURSIVE trimStart(_)
trimStart(s) == IF s # <<>> /\ Head(s) \in WhiteSpace THEN trimStart(Tail(s)) ELSE s

RECURSIVE trimEnd(_)
trimEnd(s) ==
    IF s # <<>> /\ s[Len(s)] \in WhiteSpace THEN trimEnd(SubSeq(s, 1, Len(s) - 1)) ELSE s

\* String.prototype.trim
trim(s) == trimEnd(trimStart(s))

----------------------------------------------------------------------------
(* JavaScript values of a request body *)

Undefined == [type |-> "undefined", s |-> ""]
Str(x)    == [type |-> "string", s |-> x]
Num       == [type |-> "number", s |-> ""]
Null      == [type |-> "null", s |-> ""]

\* typeof v === "string" ? v : ""      (route.ts:6-7)
stringOrEmpty(v) == IF v.type = "string" THEN v.s ELSE ""

----------------------------------------------------------------------------
(* Provider responses and token-usage extraction (lib/ai/chain.ts) *)

\* A usage-shaped object; a field the object lacks reads as 0, which `|| 0`
\* does not tell from a stored 0.  present = FALSE is undefined.
UsageFields == {"prompt_tokens", "completion_tokens", "total_tokens",
                "input_tokens", "output_tokens",
                "promptTokens", "completionTokens", "totalTokens",
                "inputTokens", "outputTokens"}

NoObj    == [present |-> FALSE, f |-> [k \in UsageFields |-> 0]]
EmptyObj == [present |-> TRUE,  f |-> [k \in UsageFields |-> 0]]

\* {input_tokens, output_tokens, total_tokens}
Snake(i, o, t) == [present |-> TRUE, f |-> [k \in UsageFields |->
    CASE k = "input_tokens" -> i [] k = "output_tokens" -> o [] k = "total_tokens" -> t
      [] OTHER -> 0]]

\* {prompt_tokens, completion_tokens, total_tokens}
OpenAIUsage(p, c, t) == [present |-> TRUE, f |-> [k \in UsageFields |->
    CASE k = "prompt_tokens" -> p [] k = "completion_tokens" -> c [] k = "total_tokens" -> t
      [] OTHER -> 0]]

\* {promptTokens, completionTokens, totalTokens}
Camel(p, c, t) == [present |-> TRUE, f |-> [k \in UsageFields |->
    CASE k = "promptTokens" -> p [] k = "completionTokens" -> c [] k = "totalTokens" -> t
      [] OTHER -> 0]]

\* a || b   on numbers
OrNum(a, b) == IF a # 0 THEN a ELSE b

ZeroUsage == [inputTokens |-> 0, outputTokens |-> 0, totalTokens |-> 0]

KeyToken         == <<"t","o","k","e","n">>
KeyTokenCount    == <<"T","o","k","e","n","C","o","u","n","t">>
KeyUsageMetadata == <<"u","s","a","g","e","_","m","e","t","a","d","a","t","a">>

\* The usage objects the model lets each place of a response hold.
UsageMetadataObjs == {NoObj, EmptyObj, Snake(12, 34, 46)}
MetaTokenUsageObjs == {NoObj, Camel(3, 4, 7), Camel(3, 4, 0)}
LlmTokenUsageObjs == {NoObj, Camel(6, 2, 8)}
DirectUsageObjs == {NoObj, OpenAIUsage(5, 7, 12), Snake(1, 2, 3), OpenAIUsage(5, 7, 0)}
FinishReasons == {"", "length"}
ExtraEntries == {
    <<>>,
    << [key |-> KeyTokenCount, value |-> OpenAIUsage(9, 9, 18)] >>,
    << [key |-> KeyUsageMetadata, value |-> Snake(20, 21, 41)],
       [key |-> KeyTokenCount, value |-> OpenAIUsage(9, 9, 18)] >> }
Contents == {"It depends."}

NoMetadata == [present |-> FALSE, usage_metadata |-> NoObj, tokenUsage |-> NoObj,
               finish_reason |-> ""]
NoLlmOutput == [present |-> FALSE, tokenUsage |-> NoObj]

\* What model.invoke can resolve to: an AIMessage-like object.
ModelResponses ==
    [ content : Contents,
      response_metadata : {NoMetadata} \cup
          [present : {TRUE}, usage_metadata : UsageMetadataObjs,
           tokenUsage : MetaTokenUsageObjs, finish_reason : FinishReasons],
      llmOutput : {NoLlmOutput} \cup [present : {TRUE}, tokenUsage : LlmTokenUsageObjs],
      usage : DirectUsageObjs,
      extra : ExtraEntries ]

NoResponse == [ content |-> "", response_metadata |-> NoMetadata, llmOutput |-> NoLlmOutput,
                usage |-> NoObj, extra |-> <<>> ]

\* for (const [key, value] of Object.entries(response)) if key contains "token" ...
\* content, response_metadata, llmOutput and usage do not contain "token".
RECURSIVE scanTokenKeys(_)
scanTokenKeys(entries) ==
    IF entries = <<>> THEN NoObj
    ELSE IF includes(toLowerCase(Head(entries).key), KeyToken) /\ Head(entries).value.present
         THEN Head(entries).value
         ELSE scanTokenKeys(Tail(entries))

\* The usage_metadata branch
fromUsageMetadata(u) ==
    [inputTokens |-> u.f["input_tokens"], outputTokens |-> u.f["output_tokens"],
     totalTokens |-> u.f["total_tokens"]]

\* The two tokenUsage branches (response_metadata.tokenUsage, llmOutput.tokenUsage)
fromTokenUsage(u) ==
    [inputTokens  |-> OrNum(u.f["promptTokens"], u.f["inputTokens"]),
     outputTokens |-> OrNum(u.f["completionTokens"], u.f["outputTokens"]),
     totalTokens  |-> u.f["totalTokens"]]

\* The direct usage branch
fromDirectUsage(u) ==
    [inputTokens  |-> OrNum(u.f["prompt_tokens"], u.f["input_tokens"]),
     outputTokens |-> OrNum(u.f["completion_tokens"], u.f["output_tokens"]),
     totalTokens  |-> u.f["total_tokens"]]

\* The last-resort branch
fromTokenData(u) ==
    [inputTokens  |-> OrNum(u.f["prompt_tokens"], OrNum(u.f["inputTokens"], u.f["input_tokens"])),
     outputTokens |-> OrNum(u.f["completion_tokens"], OrNum(u.f["outputTokens"], u.f["output_tokens"])),
     totalTokens  |-> OrNum(u.f["total_tokens"], u.f["totalTokens"])]

\* A variant that probes the direct usage object before the metadata.
extractTokenUsageDirectFirst(response) ==
    IF response.usage.present THEN fromDirectUsage(response.usage)
    ELSE IF response.response_metadata.present
            /\ response.response_metadata.usage_metadata.present
         THEN fromUsageMetadata(response.response_metadata.usage_metadata)
    ELSE IF response.response_metadata.present
            /\ response.response_metadata.tokenUsage.present
         THEN fromTokenUsage(response.response_metadata.tokenUsage)
    ELSE IF response.llmOutput.present /\ response.llmOutput.tokenUsage.present
         THEN fromTokenUsage(response.llmOutput.tokenUsage)
    ELSE IF scanTokenKeys(response.extra).present
         THEN fromTokenData(scanTokenKeys(response.extra))
    ELSE ZeroUsage

extractTokenUsage(response) ==
    IF response.response_metadata.present
       /\ response.response_metadata.usage_metadata.present
    THEN fromUsageMetadata(response.response_metadata.usage_metadata)
    ELSE IF response.response_metadata.present
            /\ response.response_metadata.tokenUsage.present
         THEN fromTokenUsage(response.response_metadata.tokenUsage)
    ELSE IF response.llmOutput.present /\ response.llmOutput.tokenUsage.present
         THEN fromTokenUsage(response.llmOutput.tokenUsage)
    ELSE IF response.usage.present
         THEN fromDirectUsage(response.usage)
    ELSE IF scanTokenKeys(response.extra).present
         THEN fromTokenData(scanTokenKeys(response.extra))
    ELSE ZeroUsage

----------------------------------------------------------------------------
(* Errors of the provider call and their classification *)

FragApiKey    == <<"A","P","I"," ","k","e","y">>
FragModel     == <<"m","o","d","e","l">>
FragRateLimit == <<"r","a","t","e"," ","l","i","m","i","t">>
FragTimeout   == <<"t","i","m","e","o","u","t">>
Fragments     == {FragApiKey, FragModel, FragRateLimit, FragTimeout}

\* "Error:" followed by the chosen fragments, each after a blank
messageOf(S) ==
    <<"E","r","r","o","r",":">>
    \o (IF FragApiKey \in S THEN <<" ">> \o FragApiKey ELSE <<>>)
    \o (IF FragModel \in S THEN <<" ">> \o FragModel ELSE <<>>)
    \o (IF FragRateLimit \in S THEN <<" ">> \o FragRateLimit ELSE <<>>)
    \o (IF FragTimeout \in S THEN <<" ">> \o FragTimeout ELSE <<>>)

\* The message of the Error thrown when OPENAI_API_KEY is not set
MissingKeyMessage == <<"O","p","e","n","A","I"," ","A","P","I"," ","k","e","y"," ","i","s"," ","n","o","t"," ","c","o","n","f","i","g","u","r","e","d","."," ","P","l","e","a","s","e"," ","s","e","t"," ","O","P","E","N","A","I","_","A","P","I","_","K","E","Y"," ","e","n","v","i","r","o","n","m","e","n","t"," ","v","a","r","i","a","b","l","e",".">>

MissingKeyError == [hasMessage |-> TRUE, message |-> MissingKeyMessage, status |-> 0]

\* status 0: the error carries no status
ErrorStatuses == {0, 401, 429, 500}

\* What a provider call can reject with
ProviderErrors ==
    [hasMessage : {TRUE}, message : {messageOf(S) : S \in SUBSET Fragments},
     status : ErrorStatuses]
    \cup [hasMessage : {FALSE}, message : {<<>>}, status : ErrorStatuses]

MsgGeneric      == "Sorry, I encountered an error processing your request."
MsgApiKey       == "Authentication error: Please check your OpenAI API key configuration."
MsgModel        == "Model error: The specified AI model is not available or invalid."
MsgRateLimit    == "Rate limit exceeded: Please wait a moment before trying again."
MsgTimeout      == "Request timeout: The AI service took too long to respond."
MsgTooMany      == "Too many requests: Please try again in a few moments."
MsgAuthFailed   == "Authentication failed: Please check your API key."
ErrorTexts == {MsgGeneric, MsgApiKey, MsgModel, MsgRateLimit, MsgTimeout, MsgTooMany,
               MsgAuthFailed}

\* error?.message?.includes(k)
messageIncludes(error, k) == error.hasMessage /\ includes(error.message, k)

\* A variant that looks at the status before the message text.
classifyErrorStatusFirst(error) ==
    IF messageIncludes(error, FragApiKey) THEN MsgApiKey
    ELSE IF messageIncludes(error, FragModel) THEN MsgModel
    ELSE IF messageIncludes(error, FragRateLimit) THEN MsgRateLimit
    ELSE IF error.status = 429 THEN MsgTooMany
    ELSE IF messageIncludes(error, FragTimeout) THEN MsgTimeout
    ELSE IF error.status = 401 THEN MsgAuthFailed
    ELSE MsgGeneric

\* The if / else-if chain of the catch block
classifyError(error) ==
    IF messageIncludes(error, FragApiKey) THEN MsgApiKey
    ELSE IF messageIncludes(error, FragModel) THEN MsgModel
    ELSE IF messageIncludes(error, FragRateLimit) THEN MsgRateLimit
    ELSE IF messageIncludes(error, FragTimeout) THEN MsgTimeout
    ELSE IF error.status = 429 THEN MsgTooMany
    ELSE IF error.status = 401 THEN MsgAuthFailed
    ELSE MsgGeneric

----------------------------------------------------------------------------
(* generateCompletionWithTokens *)

MaxElapsed == 1     \* bound on the milliseconds a provider call is seen to take

\* no error: an error object without message or status
NoError == [hasMessage |-> FALSE, message |-> <<>>, status |-> 0]

NoResult == [returned |-> FALSE, threw |-> FALSE, text |-> "", tokensUsed |-> 0,
             inputTokens |-> 0, outputTokens |-> 0, responseTime |-> 0,
             finishReason |-> "", error |-> NoError]

\* The locals of one execution; call: how the call to model.invoke went
\* ("none", "nokey": not made for want of a key, "pending", "resolved", "rejected")
NoLocal == [input |-> "", call |-> "none", text |-> "", tokenUsage |-> ZeroUsage,
            finishReason |-> "", responseTime |-> 0]

\* return { text, tokensUsed, inputTokens, outputTokens, responseTime, finishReason }
successResult(text, tokens, responseTime, finishReason) ==
    [returned |-> TRUE, threw |-> FALSE, text |-> text,
     tokensUsed |-> tokens.totalTokens, inputTokens |-> tokens.inputTokens,
     outputTokens |-> tokens.outputTokens, responseTime |-> responseTime,
     finishReason |-> finishReason, error |-> NoError]

\* The catch block: a structured result, nothing rethrown
catchResult(error, responseTime) ==
    [returned |-> TRUE, threw |-> FALSE, text |-> classifyError(error),
     tokensUsed |-> 0, inputTokens |-> 0, outputTokens |-> 0,
     responseTime |-> responseTime, finishReason |-> "error", error |-> error]

\* A variant without the try/catch: the error reaches the caller.
rethrowResult(error, responseTime) ==
    [returned |-> TRUE, threw |-> TRUE, text |-> "", tokensUsed |-> 0,
     inputTokens |-> 0, outputTokens |-> 0, responseTime |-> responseTime,
     finishReason |-> "", error |-> error]

\* What the function does with an error raised inside its try block
onError(error, responseTime) == catchResult(error, responseTime)

\* const usage = openaiResponse.usage; fallbackTokens = { ... || 0 }
fallbackTokens(usage) ==
    [inputTokens |-> usage.f["prompt_tokens"], outputTokens |-> usage.f["completion_tokens"],
     totalTokens |-> usage.f["total_tokens"]]

\* What openaiClient.chat.completions.create can resolve to (its usage field)
FallbackUsages == {NoObj, OpenAIUsage(11, 22, 33)}

\* if (tokenUsage.totalTokens === 0)
needsFallback(tokenUsage) == tokenUsage.totalTokens = 0

\* modelResponse.response_metadata?.finish_reason || "stop"
finishReasonOf(response) ==
    IF response.response_metadata.present /\ response.response_metadata.finish_reason # ""
    THEN response.response_metadata.finish_reason
    ELSE "stop"

----------------------------------------------------------------------------
(* The HTTP endpoints: app/api/ai/chat/route.ts and app/api/ai/stream/route.ts *)

InputValues == {Undefined, Null, Num, Str(""), Str("why?")}
ConversationIdValues == {Undefined, Num, Str("conv_1")}

\* A request body: not parseable as JSON, the JSON value null, or a JSON object
Bodies ==
    {[kind |-> "malformed", input |-> Undefined, conversationId |-> Undefined],
     [kind |-> "null", input |-> Undefined, conversationId |-> Undefined]}
    \cup [kind : {"object"}, input : InputValues, conversationId : ConversationIdValues]

NoBody == [kind |-> "null", input |-> Undefined, conversationId |-> Undefined]

\* typeof body?.input === "string" ? body.input : ""
inputOf(body) == stringOrEmpty(body.input)

\* typeof body?.conversationId === "string" ? body.conversationId : ""
conversationIdOf(body) == stringOrEmpty(body.conversationId)

\* conversationId ? `[Conversation: ${conversationId}]\n${input}` : input
enhancedInputOf(body) ==
    IF conversationIdOf(body) # ""
    THEN "[Conversation: " \o conversationIdOf(body) \o "]\n" \o inputOf(body)
    ELSE inputOf(body)

NoResp == [status |-> 0, kind |-> "none", error |-> "", text |-> "", conversationId |-> "",
           hasUsage |-> FALSE, tokensUsed |-> 0, inputTokens |-> 0, outputTokens |-> 0,
           responseTime |-> 0, finishReason |-> ""]

\* req.json() rejects before any try block: the framework answers 500
unhandledResponse == [NoResp EXCEPT !.status = 500, !.kind = "unhandled"]

\* new Response(JSON.stringify({ error: "Missing input" }), { status: 400 })
missingInputJson == [NoResp EXCEPT !.status = 400, !.kind = "json", !.error = "Missing input"]

\* new Response("Missing input", { status: 400 })
missingInputText == [NoResp EXCEPT !.status = 400, !.kind = "text", !.text = "Missing input"]

\* The 200 body of the synchronous endpoint
okResponse(res, conversationId) ==
    [status |-> 200, kind |-> "json", error |-> "", text |-> res.text,
     conversationId |-> conversationId, hasUsage |-> TRUE, tokensUsed |-> res.tokensUsed,
     inputTokens |-> res.inputTokens, outputTokens |-> res.outputTokens,
     responseTime |-> res.responseTime, finishReason |-> res.finishReason]

\* The 500 body of the synchronous endpoint: error?.message || "Error"
errorResponse(res, conversationId) ==
    [status |-> 500, kind |-> "json",
     error |-> IF res.error.hasMessage /\ res.error.message # <<>>
               THEN "error.message" ELSE "Error",
     text |-> "", conversationId |-> conversationId, hasUsage |-> TRUE, tokensUsed |-> 0,
     inputTokens |-> 0, outputTokens |-> 0, responseTime |-> 0, finishReason |-> "error"]

\* try { result = await generateCompletionWithTokens(...); 200 } catch { 500 }
syncResponse(res, conversationId) ==
    IF res.threw THEN errorResponse(res, conversationId)
    ELSE okResponse(res, conversationId)

\* A variant of the validation that lets an empty input through.
rejectsNever(body) == FALSE

\* if (!input) return 400
rejects(body) == inputOf(body) = ""

MaxChunks == 2      \* bound on the chunks one upstream iteration yields
Chunks == {<<"a">>, <<"b", "e_acute">>}

\* TextEncoder.encode on the characters the model uses (UTF-8)
utf8Char(c) == CASE c = "a" -> <<97>> [] c = "b" -> <<98>> [] c = "e_acute" -> <<195, 169>>

RECURSIVE encode(_)
encode(chunk) == IF chunk = <<>> THEN <<>> ELSE utf8Char(Head(chunk)) \o encode(Tail(chunk))

\* The response stream: the state of its controller, the chunks the upstream
\* iteration has yielded, the bytes enqueued, and how far the upstream call is
\* ("none", "pending", "iterating", "raised", "exhausted")
NoStream == [state |-> "none", produced |-> <<>>, emitted |-> <<>>, upstream |-> "none"]

\* A variant that puts the new bytes in front of those enqueued before.
enqueueInFront(emitted, bytes) == <<bytes>> \o emitted

\* controller.enqueue(bytes)
enqueue(emitted, bytes) == Append(emitted, bytes)

\* A variant that ends the stream cleanly.
controllerCloseInstead(s) == [s EXCEPT !.state = "closed"]

\* controller.error(e)
controllerError(s) == [s EXCEPT !.state = "errored"]

HttpInit ==
    /\ pc = "idle"
    /\ endpoint = "sync"
    /\ req = NoBody
    /\ apiKey \in BOOLEAN
    /\ calls = 0
    /\ modelResponse = NoResponse
    /\ local = NoLocal
    /\ result = NoResult
    /\ resp = NoResp
    /\ stream = NoStream

\* POST /api/ai/chat up to its first suspension
SyncRequest(body) ==
    /\ pc = "idle"
    /\ UNCHANGED storeVars
    /\ endpoint' = "sync"
    /\ req' = body
    /\ UNCHANGED <<apiKey, modelResponse, stream>>
    /\ IF body.kind = "malformed"
       THEN /\ resp' = unhandledResponse
            /\ pc' = "done"
            /\ UNCHANGED <<calls, local, result>>
       ELSE IF rejects(body)
       THEN /\ resp' = missingInputJson
            /\ pc' = "done"
            /\ UNCHANGED <<calls, local, result>>
       ELSE IF ~apiKey
       THEN \* throw new Error("OpenAI API key is not configured...") inside the try
            /\ result' = onError(MissingKeyError, 0)
            /\ resp' = syncResponse(result', conversationIdOf(body))
            /\ pc' = "done"
            /\ local' = [NoLocal EXCEPT !.input = enhancedInputOf(body), !.call = "nokey"]
            /\ UNCHANGED calls
       ELSE \* await model.invoke([...])
            /\ calls' = calls + 1
            /\ local' = [NoLocal EXCEPT !.input = enhancedInputOf(body), !.call = "pending"]
            /\ pc' = "invoke"
            /\ UNCHANGED <<result, resp>>

\* model.invoke resolves
ModelInvokeReturns(r, dt) ==
    /\ pc = "invoke"
    /\ UNCHANGED storeVars
    /\ modelResponse' = r
    /\ local' = [local EXCEPT !.call = "resolved", !.text = r.content,
                              !.tokenUsage = extractTokenUsage(r),
                              !.finishReason = finishReasonOf(r), !.responseTime = dt]
    /\ UNCHANGED <<endpoint, req, apiKey, stream>>
    /\ IF needsFallback(local'.tokenUsage)
       THEN \* await openaiClient.chat.completions.create({...})
            /\ calls' = calls + 1
            /\ pc' = "fallback"
            /\ UNCHANGED <<result, resp>>
       ELSE /\ result' = successResult(local'.text, local'.tokenUsage, local'.responseTime,
                                       local'.finishReason)
            /\ resp' = syncResponse(result', conversationIdOf(req))
            /\ pc' = "done"
            /\ UNCHANGED calls

\* model.invoke rejects
ModelInvokeThrows(e, dt) ==
    /\ pc = "invoke"
    /\ UNCHANGED storeVars
    /\ local' = [local EXCEPT !.call = "rejected"]
    /\ result' = onError(e, dt)
    /\ resp' = syncResponse(result', conversationIdOf(req))
    /\ pc' = "done"
    /\ UNCHANGED <<endpoint, req, apiKey, calls, modelResponse, stream>>

\* The fallback call resolves
FallbackReturns(usage) ==
    /\ pc = "fallback"
    /\ UNCHANGED storeVars
    /\ result' = successResult(local.text, fallbackTokens(usage), local.responseTime,
                               local.finishReason)
    /\ resp' = syncResponse(result', conversationIdOf(req))
    /\ pc' = "done"
    /\ UNCHANGED <<endpoint, req, apiKey, calls, modelResponse, local, stream>>

\* The fallback call rejects: logged, and the result of the first call is returned
FallbackThrows(e) ==
    /\ pc = "fallback"
    /\ UNCHANGED storeVars
    /\ result' = successResult(local.text, local.tokenUsage, local.responseTime,
                               local.finishReason)
    /\ resp' = syncResponse(result', conversationIdOf(req))
    /\ pc' = "done"
    /\ UNCHANGED <<endpoint, req, apiKey, calls, modelResponse, local, stream>>

\* POST /api/ai/stream up to the first suspension of start(controller)
StreamRequest(body) ==
    /\ pc = "idle"
    /\ UNCHANGED storeVars
    /\ endpoint' = "stream"
    /\ req' = body
    /\ UNCHANGED <<apiKey, modelResponse, result>>
    /\ IF body.kind = "malformed"
       THEN /\ resp' = unhandledResponse
            /\ pc' = "done"
            /\ UNCHANGED <<calls, local, stream>>
       ELSE IF rejects(body)
       THEN /\ resp' = missingInputText
            /\ pc' = "done"
            /\ UNCHANGED <<calls, local, stream>>
       ELSE \* new ReadableStream({ start }) runs start to await simpleChain.stream(...)
            /\ calls' = calls + 1
            /\ local' = [NoLocal EXCEPT !.input = enhancedInputOf(body)]
            /\ stream' = [NoStream EXCEPT !.state = "open", !.upstream = "pending"]
            /\ resp' = [NoResp EXCEPT !.status = 200, !.kind = "stream",
                                      !.conversationId = conversationIdOf(body)]
            /\ pc' = "stream_open"

\* simpleChain.stream resolves to an iterator
StreamOpenReturns ==
    /\ pc = "stream_open"
    /\ UNCHANGED storeVars
    /\ pc' = "streaming"
    /\ stream' = [stream EXCEPT !.upstream = "iterating"]
    /\ UNCHANGED <<endpoint, req, apiKey, calls, modelResponse, local, result, resp>>

\* simpleChain.stream rejects: controller.error(e); return
StreamOpenThrows ==
    /\ pc = "stream_open"
    /\ UNCHANGED storeVars
    /\ stream' = controllerError([stream EXCEPT !.upstream = "raised"])
    /\ pc' = "done"
    /\ UNCHANGED <<endpoint, req, apiKey, calls, modelResponse, local, result, resp>>

\* The iterator yields a chunk: controller.enqueue(new TextEncoder().encode(chunk))
StreamChunk(chunk) ==
    /\ pc = "streaming"
    /\ UNCHANGED storeVars
    /\ Len(stream.produced) < MaxChunks
    /\ stream' = [stream EXCEPT !.produced = Append(@, chunk),
                                !.emitted = enqueue(@, encode(chunk))]
    /\ UNCHANGED <<pc, endpoint, req, apiKey, calls, modelResponse, local, result, resp>>

\* The iterator rejects: controller.error(e); return
StreamIterThrows ==
    /\ pc = "streaming"
    /\ UNCHANGED storeVars
    /\ stream' = controllerError([stream EXCEPT !.upstream = "raised"])
    /\ pc' = "done"
    /\ UNCHANGED <<endpoint, req, apiKey, calls, modelResponse, local, result, resp>>

\* The iterator is exhausted: controller.close()
StreamEnd ==
    /\ pc = "streaming"
    /\ UNCHANGED storeVars
    /\ stream' = [stream EXCEPT !.state = "closed", !.upstream = "exhausted"]
    /\ pc' = "done"
    /\ UNCHANGED <<endpoint, req, apiKey, calls, modelResponse, local, result, resp>>

\* The handler is ready for the next request; every request starts from a clean slate
NextRequest ==
    /\ pc = "done"
    /\ UNCHANGED storeVars
    /\ pc' = "idle"
    /\ endpoint' = "sync"
    /\ req' = NoBody
    /\ calls' = 0
    /\ modelResponse' = NoResponse
    /\ local' = NoLocal
    /\ result' = NoResult
    /\ resp' = NoResp
    /\ stream' = NoStream
    /\ UNCHANGED apiKey

HttpNext ==
    \/ \E body \in Bodies : SyncRequest(body)
    \/ \E r \in ModelResponses, dt \in 0..MaxElapsed : ModelInvokeReturns(r, dt)
    \/ \E e \in ProviderErrors, dt \in 0..MaxElapsed : ModelInvokeThrows(e, dt)
    \/ \E u \in FallbackUsages : FallbackReturns(u)
    \/ \E e \in ProviderErrors : FallbackThrows(e)
    \/ \E body \in Bodies : StreamRequest(body)
    \/ StreamOpenReturns
    \/ StreamOpenThrows
    \/ \E chunk \in Chunks : StreamChunk(chunk)
    \/ StreamIterThrows
    \/ StreamEnd
    \/ NextRequest

----------------------------------------------------------------------------
(* Title derivation (convex/chat.ts: generateTitle, generateConversationTitle) *)

\* const keywords = [...]
keywords == <<
    <<"h","e","l","p">>,
    <<"q","u","e","s","t","i","o","n">>,
    <<"e","x","p","l","a","i","n">>,
    <<"h","o","w">>,
    <<"w","h","a","t">>,
    <<"w","h","y">>,
    <<"c","o","d","e">>,
    <<"p","r","o","g","r","a","m","m","i","n","g">>,
    <<"d","e","s","i","g","n">>,
    <<"b","u","s","i","n","e","s","s">>,
    <<"w","r","i","t","i","n","g">>,
    <<"a","n","a","l","y","s","i","s">>,
    <<"r","e","s","e","a","r","c","h">>,
    <<"l","e","a","r","n","i","n","g">> >>

WordCreate   == <<"c","r","e","a","t","e">>
WordBuild    == <<"b","u","i","l","d">>
WordMake     == <<"m","a","k","e">>
WordFix      == <<"f","i","x">>
WordDebug    == <<"d","e","b","u","g">>
WordError    == <<"e","r","r","o","r">>
WordLearn    == <<"l","e","a","r","n">>
WordTeach    == <<"t","e","a","c","h">>
WordTutorial == <<"t","u","t","o","r","i","a","l">>

SuffixDiscussion  == <<" ","D","i","s","c","u","s","s","i","o","n">>
ProjectCreation   == <<"P","r","o","j","e","c","t"," ","C","r","e","a","t","i","o","n">>
ProblemSolving    == <<"P","r","o","b","l","e","m"," ","S","o","l","v","i","n","g">>
LearningSession   == <<"L","e","a","r","n","i","n","g"," ","S","e","s","s","i","o","n">>
GeneralDiscussion == <<"G","e","n","e","r","a","l"," ","D","i","s","c","u","s","s","i","o","n">>
NewConversation   == <<"N","e","w"," ","C","o","n","v","e","r","s","a","t","i","o","n">>
HelpDiscussion    == <<"H","e","l","p"," ","D","i","s","c","u","s","s","i","o","n">>
Ellipsis          == <<".", ".", ".">>

\* `Generate a title for this conversation: ${userMessage}`
PromptPrefix == <<"G","e","n","e","r","a","t","e"," ","a"," ","t","i","t","l","e"," ","f","o","r"," ","t","h","i","s"," ","c","o","n","v","e","r","s","a","t","i","o","n",":"," ">>

\* primaryKeyword.charAt(0).toUpperCase() + primaryKeyword.slice(1)
capitalize(w) == IF w = <<>> THEN w ELSE <<toUpperCaseChar(Head(w))>> \o Tail(w)

\* A variant that takes the keywords in the order the message has them.
foundKeywordsByPosition(message) ==
    LET at(k) == CHOOSE i \in 0..Len(message) :
                    /\ \A j \in 1..Len(k) : i + j <= Len(message) /\ message[i + j] = k[j]
                    /\ \A h \in 0..(i - 1) :
                          \E j \in 1..Len(k) : h + j > Len(message) \/ message[h + j] # k[j]
    IN  SortSeq(SelectSeq(keywords, LAMBDA k : includes(message, k)),
                LAMBDA a, b : at(a) < at(b))

\* foundKeywords: the keywords the message includes, in list order
foundKeywords(message) ==
    SelectSeq(keywords, LAMBDA k : includes(message, k))

\* The handler of the internal action generateTitle
generateTitle(prompt) ==
    LET message == toLowerCase(prompt)
        found   == foundKeywords(message)
    IN  IF Len(found) > 0 THEN capitalize(found[1]) \o SuffixDiscussion
        ELSE IF includes(message, WordCreate) \/ includes(message, WordBuild)
                \/ includes(message, WordMake) THEN ProjectCreation
        ELSE IF includes(message, WordFix) \/ includes(message, WordDebug)
                \/ includes(message, WordError) THEN ProblemSolving
        ELSE IF includes(message, WordLearn) \/ includes(message, WordTeach)
                \/ includes(message, WordTutorial) THEN LearningSession
        ELSE GeneralDiscussion

TitleLimit == 50    \* cleanTitle.length > 50
TitleKeep  == 47    \* cleanTitle.substring(0, 47)

\* finalTitle.replace(/[.!?]$/, "")
stripTrailingPunctuation(s) ==
    IF s # <<>> /\ s[Len(s)] \in {".", "!", "?"} THEN SubSeq(s, 1, Len(s) - 1) ELSE s

\* What generateConversationTitle makes of the action's answer
cleanUp(title) ==
    LET cleanTitle == IF trim(title) # <<>> THEN trim(title) ELSE NewConversation
        finalTitle == IF Len(cleanTitle) > TitleLimit
                      THEN substring0(cleanTitle, TitleKeep) \o Ellipsis
                      ELSE cleanTitle
        stripped   == stripTrailingPunctuation(finalTitle)
    IN  IF stripped # <<>> THEN stripped ELSE NewConversation

\* The texts a message can carry
ContentHelp  == <<"h","e","l","p"," ","m","e"," ","f","i","x"," ","a"," ","b","u","g">>
ContentBuild == <<"B","u","i","l","d"," ","i","t","!">>
ContentSure  == <<"S","u","r","e",".">>
UserContents      == {ContentHelp, ContentBuild}    \* what a user-role message says
AssistantContents == {ContentSure}                  \* what an assistant-role message says
MessageContents   == UserContents \cup AssistantContents
ContentsOf(role)  == IF role = "user" THEN UserContents ELSE AssistantContents

\* await ctx.runAction(internal.chat.generateTitle, { prompt }) for each text,
\* when the action returns (evaluated once)
actionAnswer == [c \in MessageContents |-> generateTitle(PromptPrefix \o c)]

\* A variant whose catch block gives no title.
generateConversationTitleNoFallback(userMessage, actionFails) ==
    IF actionFails THEN <<>>
    ELSE cleanUp(actionAnswer[userMessage])

\* generateConversationTitle(ctx, userMessage); actionFails: ctx.runAction rejects
generateConversationTitle(userMessage, actionFails) ==
    IF actionFails THEN NewConversation
    ELSE cleanUp(actionAnswer[userMessage])

----------------------------------------------------------------------------
(* The conversation store (convex/chat.ts).  A Convex mutation is one       *)
(* transaction, so each handler is one action.                              *)

MaxInserts == 2     \* bound on the messages ever inserted

Users     == {"u1", "u2"}
NoUser    == "anonymous"        \* getCurrentUser(ctx) resolves to null
Callers   == Users \cup {NoUser}
Roles     == {"user", "assistant"}
ConversationIds == {"c1", "c2"}

\* conversationTitle: undefined, or a string
NoTitle      == [present |-> FALSE, s |-> <<>>]
TitleOf(s)   == [present |-> TRUE, s |-> s]
\* the truthiness test of find(msg => msg.conversationTitle)
truthy(title) == title.present /\ title.s # <<>>

\* A variant that reads the messages of every conversation.
everyConversation(msgs, id) == msgs

\* .withIndex("byConversation", q => q.eq("conversationId", id)), ascending
byConversation(msgs, id) == SelectSeq(msgs, LAMBDA m : m.conversationId = id)

\* A variant without the filter on the role.
anyRole(msgs) == msgs

\* .filter(q => q.eq(q.field("role"), "user"))
userRole(msgs) == SelectSeq(msgs, LAMBDA m : m.role = "user")

\* existingMessages.find(msg => msg.conversationTitle)?.conversationTitle
existingTitle(existing) ==
    LET titled == SelectSeq(existing, LAMBDA m : truthy(m.conversationTitle))
    IN  IF titled = <<>> THEN NoTitle ELSE titled[1].conversationTitle

\* A variant that derives a title for every user message.
titleForAlways(role, content, existing, actionFails) ==
    IF role = "user"
    THEN TitleOf(generateConversationTitle(content, actionFails))
    ELSE existingTitle(existing)

\* A variant that lets every caller through.
unauthenticatedNever(user) == FALSE

\* const user = await getCurrentUser(ctx); if (!user) throw new Error("User not authenticated")
unauthenticated(user) == user = NoUser

\* messages.filter(msg => msg.userId === user._id)
ownedBy(msgs, user) == SelectSeq(msgs, LAMBDA m : m.userId = user)

\* A variant that deletes the oldest message of the conversation only.
deleteFirstOnly(msgs, conversationId) ==
    LET first == byConversation(msgs, conversationId)[1]
    IN  SelectSeq(msgs, LAMBDA m : m # first)

\* for (const message of messages) await ctx.db.delete(message._id): the table
\* once every message of the conversation is deleted
deleteEach(msgs, conversationId) ==
    SelectSeq(msgs, LAMBDA m : m.conversationId # conversationId)

\* The title saveMessage stores on the new message
titleFor(role, content, existing, actionFails) ==
    IF role = "user"
    THEN IF Len(existing) = 0
         THEN TitleOf(generateConversationTitle(content, actionFails))
         ELSE existingTitle(existing)
    ELSE existingTitle(existing)

\* ctx.db.insert("chatMessages", {...}) with the title saveMessage has chosen:
\* the table after the insert at creation time t
insertMessage(msgs, t, user, role, content, conversationId, actionFails) ==
    Append(msgs,
        [_creationTime |-> t, userId |-> user, role |-> role,
         content |-> content, conversationId |-> conversationId,
         conversationTitle |-> titleFor(role, content,
                                        byConversation(msgs, conversationId), actionFails)])

\* The last store operation: who called it on which conversation, how it ended,
\* whether it ran the title action ("none", "returned", "raised"), the title it
\* stored or returned, the count deleteConversation returned, the table
\* as the operation found it, and what a query returned
NoOp == [op |-> "none", user |-> NoUser, conversationId |-> "", outcome |-> "",
         titleAction |-> "none", title |-> NoTitle, deleted |-> 0, before |-> <<>>,
         returned |-> <<>>, prompt |-> <<>>]

actionOutcome(actionFails) == IF actionFails THEN "raised" ELSE "returned"

\* The chat page as it mounts: no conversation id yet, nothing submitted.
\* event: what the last step on the page was ("submitted", "ignoredEmpty",
\* "ignoredBusy", "other")
NoPage == [current |-> "", loading |-> FALSE, subs |-> <<>>, issued |-> 0,
           event |-> "none"]

StoreInit ==
    /\ messages = <<>>
    /\ now = 0
    /\ last = NoOp
    /\ ui = NoPage

\* mutation saveMessage
SaveMessage(user, role, content, conversationId, actionFails) ==
    LET call == [NoOp EXCEPT !.op = "saveMessage", !.user = user,
                             !.conversationId = conversationId, !.before = messages]
    IN  IF unauthenticated(user)
        THEN /\ last' = [call EXCEPT !.outcome = "Unauthenticated"]
             /\ UNCHANGED <<messages, now, ui, httpVars>>
        ELSE LET existing == byConversation(messages, conversationId)
                 title    == titleFor(role, content, existing, actionFails)
             IN  /\ now < MaxInserts
                 /\ UNCHANGED <<ui, httpVars>>
                 /\ now' = now + 1
                 /\ messages' = insertMessage(messages, now', user, role, content,
                                              conversationId, actionFails)
                 /\ last' = [call EXCEPT !.outcome = "ok", !.title = title,
                        !.titleAction = IF role = "user" /\ Len(existing) = 0
                                        THEN actionOutcome(actionFails) ELSE "none"]

\* mutation deleteConversation
DeleteConversation(user, conversationId) ==
    LET call == [NoOp EXCEPT !.op = "deleteConversation", !.user = user,
                             !.conversationId = conversationId, !.before = messages]
    IN  /\ UNCHANGED <<now, ui, httpVars>>
        /\ IF unauthenticated(user)
           THEN /\ last' = [call EXCEPT !.outcome = "Unauthenticated"]
                /\ UNCHANGED messages
           ELSE LET inConversation == byConversation(messages, conversationId)
                    userMessages   == ownedBy(inConversation, user)
                IN  IF Len(userMessages) = 0
                    THEN /\ last' = [call EXCEPT !.outcome = "NotFoundOrForbidden"]
                         /\ UNCHANGED messages
                    ELSE /\ messages' = deleteEach(messages, conversationId)
                         /\ last' = [call EXCEPT !.outcome = "ok",
                                                 !.deleted = Len(inConversation)]

\* A variant that stamps the new title on the messages of every conversation.
patchTitleEverywhere(msgs, conversationId, newTitle) ==
    [i \in 1..Len(msgs) |-> [msgs[i] EXCEPT !.conversationTitle = TitleOf(newTitle)]]

\* A variant that stamps the new title on the first user message only.
patchTitleFirstOnly(msgs, conversationId, newTitle) ==
    LET first == userRole(byConversation(msgs, conversationId))[1]
    IN  [i \in 1..Len(msgs) |->
            IF msgs[i] = first
            THEN [msgs[i] EXCEPT !.conversationTitle = TitleOf(newTitle)]
            ELSE msgs[i]]

\* for (const message of allMessages) ctx.db.patch(message._id, { conversationTitle })
patchTitle(msgs, conversationId, newTitle) ==
    [i \in 1..Len(msgs) |->
        IF msgs[i].conversationId = conversationId
        THEN [msgs[i] EXCEPT !.conversationTitle = TitleOf(newTitle)]
        ELSE msgs[i]]

\* if (messages.length === 0) throw new Error("No user messages found in conversation")
noUserMessages(found) == Len(found) = 0

\* mutation regenerateConversationTitle
RegenerateConversationTitle(user, conversationId, actionFails) ==
    LET call == [NoOp EXCEPT !.op = "regenerateConversationTitle", !.user = user,
                             !.conversationId = conversationId, !.before = messages]
    IN  /\ UNCHANGED <<now, ui, httpVars>>
        /\ IF unauthenticated(user)
           THEN /\ last' = [call EXCEPT !.outcome = "Unauthenticated"]
                /\ UNCHANGED messages
           ELSE LET found == userRole(byConversation(messages, conversationId))
                IN  IF noUserMessages(found)
                    THEN /\ last' = [call EXCEPT !.outcome = "NoUserMessages"]
                         /\ UNCHANGED messages
                    ELSE LET firstMessage == found[1]
                             newTitle == generateConversationTitle(firstMessage.content,
                                                                   actionFails)
                         IN  /\ messages' = patchTitle(messages, conversationId, newTitle)
                             /\ last' = [call EXCEPT !.outcome = "ok",
                                        !.titleAction = actionOutcome(actionFails),
                                        !.title = TitleOf(newTitle)]

StoreNext ==
    \/ \E user \in Callers, role \in Roles, conversationId \in ConversationIds,
          actionFails \in BOOLEAN : \E content \in ContentsOf(role) :
            SaveMessage(user, role, content, conversationId, actionFails)
    \/ \E user \in Callers, conversationId \in ConversationIds :
            DeleteConversation(user, conversationId)
    \/ \E user \in Callers, conversationId \in ConversationIds, actionFails \in BOOLEAN :
            RegenerateConversationTitle(user, conversationId, actionFails)

----------------------------------------------------------------------------
(* The queries of the conversation store *)

MaxStored == 3      \* bound on the messages of a stored table the queries read

\* .order("asc") after withIndex("byConversation", ...): by _creationTime, oldest first
orderAsc(msgs) == SortSeq(msgs, LAMBDA a, b : a._creationTime < b._creationTime)

\* .order("desc") after withIndex("byUser", ...): by _creationTime, newest first
orderDesc(msgs) == SortSeq(msgs, LAMBDA a, b : a._creationTime > b._creationTime)

\* A variant that reads the messages of every user.
everyUser(msgs, user) == msgs

\* .withIndex("byUser", q => q.eq("userId", user._id))
byUser(msgs, user) == SelectSeq(msgs, LAMBDA m : m.userId = user)

\* conversationsMap, as the sequence of its values in insertion order, after the
\* loop over the messages
RECURSIVE conversationsMap(_, _)
conversationsMap(msgs, map) ==
    IF msgs = <<>> THEN map
    ELSE LET message == Head(msgs)
             has == \E i \in 1..Len(map) : map[i].conversationId = message.conversationId
             set == IF has THEN map
                    ELSE Append(map, [conversationId |-> message.conversationId,
                                      lastMessage |-> message,
                                      messageCount |-> 0,
                                      createdAt |-> message._creationTime])
             counted == [i \in 1..Len(set) |->
                            IF set[i].conversationId = message.conversationId
                            THEN [set[i] EXCEPT !.messageCount = @ + 1]
                            ELSE set[i]]
         IN  conversationsMap(Tail(msgs), counted)

\* A variant that sorts the summaries oldest first.
oldestFirst(summaries) == SortSeq(summaries, LAMBDA a, b : a.createdAt < b.createdAt)

\* Array.from(conversationsMap.values()).sort((a, b) => b.createdAt - a.createdAt)
newestFirst(summaries) == SortSeq(summaries, LAMBDA a, b : a.createdAt > b.createdAt)

\* The handler of the query getConversationMessages
getConversationMessages(msgs, conversationId) ==
    orderAsc(byConversation(msgs, conversationId))

\* The handler of the query getUserConversations
getUserConversations(msgs, user) ==
    IF unauthenticated(user) THEN <<>>
    ELSE newestFirst(conversationsMap(orderDesc(byUser(msgs, user)), <<>>))

\* lastActivity: null, or a creation time
NoActivity    == [present |-> FALSE, t |-> 0]
ActivityAt(t) == [present |-> TRUE, t |-> t]

\* A variant that counts every message as a conversation.
totalConversationsPerMessage(msgs) == Len(msgs)

\* new Set(messages.map(m => m.conversationId)).size
totalConversations(msgs) ==
    Cardinality({msgs[i].conversationId : i \in 1..Len(msgs)})

\* Math.max(...messages.map(m => m._creationTime))
maxCreationTime(msgs) ==
    LET times == {msgs[i]._creationTime : i \in 1..Len(msgs)}
    IN  CHOOSE t \in times : \A u \in times : u <= t

\* The stats of a caller without a user
ZeroStats == [totalMessages |-> 0, totalConversations |-> 0, totalTokensUsed |-> 0,
              averageResponseTime |-> 0, lastActivity |-> NoActivity]

\* The handler of the query getUserChatStats.  The messages of the model are
\* saved without the optional tokensUsed and responseTime, so the sum of
\* (m.tokensUsed || 0) is 0 and the average over no message, NaN || 0, is 0.
getUserChatStats(msgs, user) ==
    IF unauthenticated(user) THEN ZeroStats
    ELSE LET own == byUser(msgs, user)
         IN  [totalMessages |-> Len(own),
              totalConversations |-> totalConversations(own),
              totalTokensUsed |-> 0,
              averageResponseTime |-> 0,
              lastActivity |-> IF Len(own) > 0 THEN ActivityAt(maxCreationTime(own))
                               ELSE NoActivity]

\* The arguments of one saveMessage that filled the table
StoredContent(role) == IF role = "user" THEN ContentHelp ELSE ContentSure
InsertArgs == [user : Users, role : Roles, conversationId : ConversationIds]
Inserts    == UNION {[1..n -> InsertArgs] : n \in 0..MaxStored}

\* The table after a sequence of saveMessage calls
RECURSIVE populate(_)
populate(inserts) ==
    IF inserts = <<>> THEN <<>>
    ELSE LET n       == Len(inserts)
             earlier == populate(SubSeq(inserts, 1, n - 1))
             a       == inserts[n]
         IN  insertMessage(earlier, n, a.user, a.role, StoredContent(a.role),
                           a.conversationId, FALSE)

\* A table that saveMessage calls have filled
QueryInit ==
    /\ messages \in {populate(inserts) : inserts \in Inserts}
    /\ now = Len(messages)
    /\ last = NoOp
    /\ ui = NoPage

\* query getConversationMessages
GetConversationMessages(user, conversationId) ==
    /\ last' = [NoOp EXCEPT !.op = "getConversationMessages", !.user = user,
                            !.conversationId = conversationId, !.before = messages,
                            !.outcome = "ok",
                            !.returned = getConversationMessages(messages, conversationId)]
    /\ UNCHANGED <<messages, now, ui, httpVars>>

\* query getUserConversations
GetUserConversations(user) ==
    /\ last' = [NoOp EXCEPT !.op = "getUserConversations", !.user = user,
                            !.before = messages, !.outcome = "ok",
                            !.returned = getUserConversations(messages, user)]
    /\ UNCHANGED <<messages, now, ui, httpVars>>

\* query getUserChatStats
GetUserChatStats(user) ==
    /\ last' = [NoOp EXCEPT !.op = "getUserChatStats", !.user = user,
                            !.before = messages, !.outcome = "ok",
                            !.returned = getUserChatStats(messages, user)]
    /\ UNCHANGED <<messages, now, ui, httpVars>>

QueryNext ==
    \/ \E user \in Callers, conversationId \in ConversationIds :
            GetConversationMessages(user, conversationId)
    \/ \E user \in Callers : GetUserConversations(user)
    \/ \E user \in Callers : GetUserChatStats(user)

----------------------------------------------------------------------------
(* The internal action generateTitle on the prompts of generateConversationTitle *)

MaxWords == 3       \* bound on the words of a message a title is derived from

\* The words a message is made of
Words == {<<"w","h","y">>,
          <<"h","e","l","p">>,
          <<"f","i","x">>,
          <<"m","a","k","e">>,
          <<"l","e","a","r","n">>,
          <<"l","e","a","r","n","i","n","g">>,
          <<"C","o","d","e">>,
          <<"o","k">>}

\* The messages: one to MaxWords words, separated by a space
WordLists == UNION {[1..n -> Words] : n \in 1..MaxWords}

RECURSIVE join(_)
join(ws) == IF Len(ws) = 1 THEN ws[1] ELSE ws[1] \o <<" ">> \o join(Tail(ws))

\* generateConversationTitle has made the prompt of a message
TitleInit ==
    /\ messages = <<>>
    /\ now = 0
    /\ \E ws \in WordLists : last = [NoOp EXCEPT !.prompt = PromptPrefix \o join(ws)]
    /\ ui = NoPage

\* internalAction generateTitle, run on the prompt
GenerateTitle ==
    /\ last' = [last EXCEPT !.op = "generateTitle", !.outcome = "ok",
                            !.returned = generateTitle(last.prompt)]
    /\ UNCHANGED <<messages, now, ui, httpVars>>

TitleNext == GenerateTitle

----------------------------------------------------------------------------
(* The chat page (app/dashboard/ai/page.tsx) of one signed-in user.  An     *)
(* async handler runs up to its next await in one step; a mutation takes    *)
(* effect in the step in which its promise settles.                         *)

MaxSubmissions   == 2   \* bound on the submissions the page accepts
MaxConversations == 2   \* bound on the conversation ids generateConversationId hands out

PageUser == "u1"        \* the signed-in user of the page

\* generateConversationId: `conv_${Date.now()}_${random}`, a fresh id each time
FreshIds == <<"c1", "c2", "c3">>
FreshId(n) == FreshIds[n]
\* The conversation ids the page can hold, and the positions of its submissions
PageIds     == {""} \cup {FreshIds[n] : n \in 1..Len(FreshIds)}
Submissions == 1..MaxSubmissions

\* What the user has typed when the form is submitted
InputTexts == {<<" ">>, ContentHelp}
\* responseData.text
ReplyText == ContentSure
\* How the fetch of /api/ai/chat ends: a 2xx body without an error field, a
\* non-2xx status, a 2xx body with an error field, or a rejected request
FetchOutcomes == {"ok", "notOk", "errorBody", "rejected"}

\* Whether ctx.runAction rejects in the mutations the page calls: the page's
\* control flow does not depend on the title, so one outcome is followed
TitleActionFails == {FALSE}

\* A variant that tests the input only.
ignoredWhenEmpty(input, loading) == trim(input) = <<>>

\* if (!input.trim() || !user?.id || loading) return, for the signed-in user
ignored(input, loading) == trim(input) = <<>> \/ loading

\* A variant that reads the conversation id the page shows now.
conversationIdOfPage(sub, page) == page.current

\* currentConversationId as onSubmit reads it: the value of the render in
\* which the form was submitted
conversationIdAt(sub, page) == sub.id

\* A submission: the conversation id of its render, its text, the await it is
\* suspended at ("saveUser", "fetch", "saveAssistant", or "done"), how the fetch
\* ended, the creation times of the messages it has persisted (0: none), and
\* the conversation ids it has passed to saveMessage and to the endpoint
NoId == "-"
NewSubmission(id, content) ==
    [id |-> id, content |-> content, step |-> "saveUser", reply |-> "none",
     userAt |-> 0, assistantAt |-> 0,
     savedUnder |-> NoId, sentId |-> NoId, repliedUnder |-> NoId, pageAt |-> NoId]

\* The conversation ids the sidebar lists: getUserConversations of the user
listedIds(msgs) ==
    LET list == getUserConversations(msgs, PageUser)
    IN  {list[i].conversationId : i \in 1..Len(list)}

\* startNewConversation: setCurrentConversationId(newConversationId)
startNewConversation(page) ==
    [page EXCEPT !.current = FreshId(page.issued + 1), !.issued = @ + 1]

\* finally { setLoading(false) } at the end of submission i
finished(page, i) ==
    [page EXCEPT !.subs[i].step = "done", !.loading = FALSE]

\* onSubmit up to its first await
OnSubmit(input) ==
    /\ Len(ui.subs) < MaxSubmissions
    /\ UNCHANGED <<messages, now, last, httpVars>>
    /\ IF ignored(input, ui.loading)
       THEN ui' = [ui EXCEPT !.event = IF trim(input) = <<>> THEN "ignoredEmpty"
                                       ELSE "ignoredBusy"]
       ELSE ui' = [ui EXCEPT !.event = "submitted", !.loading = TRUE,
                             !.subs = Append(@, NewSubmission(ui.current, trim(input)))]

\* await saveMessage({ role: "user", ... }) resolves; fetch is called
UserSaveReturns(i, actionFails) ==
    /\ i <= Len(ui.subs)
    /\ ui.subs[i].step = "saveUser"
    /\ UNCHANGED <<last, httpVars>>
    /\ now' = now + 1
    /\ messages' = insertMessage(messages, now', PageUser, "user", ui.subs[i].content,
                                 conversationIdAt(ui.subs[i], ui), actionFails)
    /\ ui' = [ui EXCEPT !.event = "other", !.subs[i].step = "fetch",
                        !.subs[i].userAt = now',
                        !.subs[i].savedUnder = conversationIdAt(ui.subs[i], ui),
                        !.subs[i].sentId = conversationIdAt(ui.subs[i], ui)]

\* await saveMessage({ role: "user", ... }) rejects: catch, finally
UserSaveThrows(i) ==
    /\ i <= Len(ui.subs)
    /\ ui.subs[i].step = "saveUser"
    /\ UNCHANGED <<messages, now, last, httpVars>>
    /\ ui' = [finished(ui, i) EXCEPT !.event = "other"]

\* await fetch("/api/ai/chat", ...) settles
FetchSettles(i, outcome) ==
    /\ i <= Len(ui.subs)
    /\ ui.subs[i].step = "fetch"
    /\ UNCHANGED <<messages, now, last, httpVars>>
    /\ IF outcome = "ok"
       THEN ui' = [ui EXCEPT !.event = "other", !.subs[i].reply = outcome,
                             !.subs[i].step = "saveAssistant"]
       ELSE \* throw new Error(...): catch, finally
            ui' = [finished(ui, i) EXCEPT !.event = "other", !.subs[i].reply = outcome]

\* await saveMessage({ role: "assistant", ... }) resolves: finally
AssistantSaveReturns(i) ==
    /\ i <= Len(ui.subs)
    /\ ui.subs[i].step = "saveAssistant"
    /\ UNCHANGED <<last, httpVars>>
    /\ now' = now + 1
    /\ messages' = insertMessage(messages, now', PageUser, "assistant", ReplyText,
                                 conversationIdAt(ui.subs[i], ui), FALSE)
    /\ ui' = [finished(ui, i) EXCEPT !.event = "other", !.subs[i].assistantAt = now',
                        !.subs[i].repliedUnder = conversationIdAt(ui.subs[i], ui),
                        !.subs[i].pageAt = ui.current]

\* await saveMessage({ role: "assistant", ... }) rejects: catch, finally
AssistantSaveThrows(i) ==
    /\ i <= Len(ui.subs)
    /\ ui.subs[i].step = "saveAssistant"
    /\ UNCHANGED <<messages, now, last, httpVars>>
    /\ ui' = [finished(ui, i) EXCEPT !.event = "other"]

\* The "New Chat" button, and the effect that runs while there is no id
StartNewConversation ==
    /\ ui.issued < MaxConversations
    /\ UNCHANGED <<messages, now, last, httpVars>>
    /\ ui' = [startNewConversation(ui) EXCEPT !.event = "other"]

\* A click on a conversation of the sidebar
SwitchConversation(id) ==
    /\ id \in listedIds(messages)
    /\ UNCHANGED <<messages, now, last, httpVars>>
    /\ ui' = [ui EXCEPT !.event = "other", !.current = id]

\* The delete button of a conversation of the sidebar
DeleteClicked(id) ==
    /\ id \in listedIds(messages)
    /\ id = ui.current => ui.issued < MaxConversations
    /\ UNCHANGED <<now, last, httpVars>>
    /\ messages' = deleteEach(messages, id)
    /\ ui' = [(IF id = ui.current THEN startNewConversation(ui) ELSE ui)
                 EXCEPT !.event = "other"]

\* The regenerate button of a conversation of the sidebar
RegenerateClicked(id, actionFails) ==
    /\ id \in listedIds(messages)
    /\ UNCHANGED <<now, last, httpVars>>
    /\ ui' = [ui EXCEPT !.event = "other"]
    /\ LET found == userRole(byConversation(messages, id))
       IN  IF noUserMessages(found)
           THEN UNCHANGED messages
           ELSE messages' = patchTitle(messages, id,
                                generateConversationTitle(found[1].content, actionFails))

\* A suspended submission resumes
Resume ==
    \E i \in Submissions :
        \/ \E actionFails \in TitleActionFails : UserSaveReturns(i, actionFails)
        \/ UserSaveThrows(i)
        \/ \E outcome \in FetchOutcomes : FetchSettles(i, outcome)
        \/ AssistantSaveReturns(i)
        \/ AssistantSaveThrows(i)

UiNext ==
    \/ \E input \in InputTexts : OnSubmit(input)
    \/ \E i \in Submissions, actionFails \in TitleActionFails : UserSaveReturns(i, actionFails)
    \/ \E i \in Submissions : UserSaveThrows(i)
    \/ \E i \in Submissions, outcome \in FetchOutcomes : FetchSettles(i, outcome)
    \/ \E i \in Submissions : AssistantSaveReturns(i)
    \/ \E i \in Submissions : AssistantSaveThrows(i)
    \/ StartNewConversation
    \/ \E id \in PageIds : SwitchConversation(id)
    \/ \E id \in PageIds : DeleteClicked(id)
    \/ \E id \in PageIds, actionFails \in TitleActionFails :
            RegenerateClicked(id, actionFails)

----------------------------------------------------------------------------
(* Specifications *)

Init == HttpInit /\ StoreInit

\* The endpoints and the Completion Client; no store operation runs
SpecHttp == Init /\ [][HttpNext]_vars

InitStore == Init /\ apiKey

\* The conversation store; no request is handled
SpecStore == InitStore /\ [][StoreNext]_vars

\* saveMessage by authenticated users
AppendNext ==
    \E user \in Users, role \in Roles, conversationId \in ConversationIds,
       actionFails \in BOOLEAN : \E content \in ContentsOf(role) :
        SaveMessage(user, role, content, conversationId, actionFails)

\* The conversation store under saveMessage calls of authenticated users only
SpecAppend == InitStore /\ [][AppendNext]_vars

InitQuery == HttpInit /\ apiKey /\ QueryInit

\* The queries on a stored table
SpecQuery == InitQuery /\ [][QueryNext]_vars

\* The chat page of a signed-in user on the store
SpecUi == InitStore /\ [][UiNext]_vars

\* The same, where every promise a submission awaits settles
SpecUiLive == InitStore /\ [][UiNext]_vars /\ WF_vars(Resume)

InitTitle == HttpInit /\ apiKey /\ TitleInit

\* The title action on its own
SpecTitle == InitTitle /\ [][TitleNext]_vars

----------------------------------------------------------------------------
(* Claims about the endpoints and the Completion Client (under SpecHttp) *)

\* The synchronous handler has answered a request whose input is a non-empty string
SyncAnswered ==
    pc = "done" /\ endpoint = "sync" /\ req.kind = "object" /\ inputOf(req) # ""

\* C1: for a non-empty input the synchronous endpoint answers either 200 with a
\* finishReason other than "error" and natural-number usage fields, or 500 with
\* every usage field 0 and finishReason "error"; a failing provider call never
\* yields a 200 whose finishReason is "error".
C1_StatusMatchesFinishReason ==
    SyncAnswered =>
        \/ /\ resp.status = 200
           /\ resp.finishReason # "error"
           /\ resp.tokensUsed \in Nat /\ resp.inputTokens \in Nat /\ resp.outputTokens \in Nat
        \/ /\ resp.status = 500
           /\ resp.tokensUsed = 0 /\ resp.inputTokens = 0 /\ resp.outputTokens = 0
           /\ resp.responseTime = 0
           /\ resp.finishReason = "error"

\* A request whose input is absent, empty or not a string has been received
EmptyInputReceived == pc # "idle" /\ req.kind # "malformed" /\ inputOf(req) = ""

\* C2: on both endpoints a request whose input is absent, the empty string or
\* not a string is answered 400, and no provider call is made for it.
C2_EmptyInputIs400WithoutCall ==
    EmptyInputReceived => (pc = "done" /\ resp.status = 400 /\ calls = 0)

\* C2 witness: the streaming endpoint has refused a numeric input, and the
\* synchronous one is covered by the same invariant
C2_Witness ==
    /\ pc = "done" /\ endpoint = "stream" /\ req.kind = "object"
    /\ req.input.type = "number" /\ resp.status = 400 /\ calls = 0

classOf(text) ==
    CASE text = MsgApiKey -> "authentication"
      [] text = MsgModel -> "model"
      [] text \in {MsgRateLimit, MsgTooMany} -> "rate_limit"
      [] text = MsgTimeout -> "timeout"
      [] text = MsgAuthFailed -> "authentication_failed"
      [] OTHER -> "generic"

\* The order the claim states: the rate-limit signal, text or 429, before timeout
claimedClass(error) ==
    IF messageIncludes(error, FragApiKey) THEN "authentication"
    ELSE IF messageIncludes(error, FragModel) THEN "model"
    ELSE IF messageIncludes(error, FragRateLimit) \/ error.status = 429 THEN "rate_limit"
    ELSE IF messageIncludes(error, FragTimeout) THEN "timeout"
    ELSE IF error.status = 401 THEN "authentication_failed"
    ELSE "generic"

\* The model.invoke call of the current request was rejected and complete returned
Classified == result.returned /\ local.call = "rejected"

\* C4 as stated: credential, model, rate limit (text or status 429), timeout,
\* status 401, generic, first match wins; so 429 with a timeout text is rate-limited.
C4_ClaimedPriority ==
    Classified => classOf(result.text) = claimedClass(result.error)

NoTextMatch(error) ==
    /\ ~messageIncludes(error, FragApiKey) /\ ~messageIncludes(error, FragModel)
    /\ ~messageIncludes(error, FragRateLimit) /\ ~messageIncludes(error, FragTimeout)

\* C4 amended: the four message-text tests come first, in the order API key,
\* model, rate limit, timeout; the status is looked at only when no text matched,
\* 429 before 401; so 429 with a timeout text is classified as a timeout.
C4_TextBeforeStatus ==
    Classified =>
        LET e == result.error IN
        /\ messageIncludes(e, FragApiKey) => result.text = MsgApiKey
        /\ (~messageIncludes(e, FragApiKey) /\ messageIncludes(e, FragModel))
              => result.text = MsgModel
        /\ (~messageIncludes(e, FragApiKey) /\ ~messageIncludes(e, FragModel)
            /\ messageIncludes(e, FragRateLimit)) => result.text = MsgRateLimit
        /\ (~messageIncludes(e, FragApiKey) /\ ~messageIncludes(e, FragModel)
            /\ ~messageIncludes(e, FragRateLimit) /\ messageIncludes(e, FragTimeout))
              => result.text = MsgTimeout
        /\ (NoTextMatch(e) /\ e.status = 429) => result.text = MsgTooMany
        /\ (NoTextMatch(e) /\ e.status = 401) => result.text = MsgAuthFailed
        /\ (NoTextMatch(e) /\ e.status \notin {401, 429}) => result.text = MsgGeneric

\* C4 witness: status 429 with a timeout text was classified as a timeout
C4_Witness ==
    /\ Classified /\ result.error.status = 429
    /\ messageIncludes(result.error, FragTimeout)
    /\ ~messageIncludes(result.error, FragRateLimit)
    /\ result.text = MsgTimeout

\* C5: handling one request makes at most one outbound provider call.
C5_AtMostOneProviderCall == calls <= 1

\* model.invoke resolved for the current request and complete returned
Completed == result.returned /\ local.call = "resolved"

\* A response that exposes usage only at response_metadata.usage_metadata
OnlyUsageMetadata(r) ==
    /\ r.response_metadata.present
    /\ r.response_metadata.usage_metadata = Snake(12, 34, 46)
    /\ ~r.response_metadata.tokenUsage.present
    /\ ~r.llmOutput.present /\ ~r.usage.present /\ r.extra = <<>>

\* A response with no usage-shaped field anywhere
NoUsageAnywhere(r) ==
    /\ ~r.response_metadata.usage_metadata.present
    /\ ~r.response_metadata.tokenUsage.present
    /\ ~r.llmOutput.tokenUsage.present
    /\ ~r.usage.present /\ r.extra = <<>>

\* C6: usage only at response_metadata.usage_metadata {12, 34, 46} comes back as
\* 12, 34, 46; a response with no usage-shaped field comes back as 0, 0, 0,
\* and nothing is thrown.
C6_UsageMetadataOrZeros ==
    Completed =>
        /\ ~result.threw
        /\ OnlyUsageMetadata(modelResponse) =>
              /\ result.inputTokens = 12 /\ result.outputTokens = 34
              /\ result.tokensUsed = 46
        /\ NoUsageAnywhere(modelResponse) =>
              /\ result.inputTokens = 0 /\ result.outputTokens = 0
              /\ result.tokensUsed = 0

\* The counts the first present source gives, in the order the claim states:
\* direct usage, usage under response_metadata, llmOutput.tokenUsage, key scan
claimedUsage(r) == extractTokenUsageDirectFirst(r)

\* C7 as stated: the sources are probed direct usage first, then the metadata,
\* then the callback-style field, then the scan of keys containing "token".
C7_ClaimedProbeOrder ==
    local.call = "resolved" => local.tokenUsage = claimedUsage(modelResponse)

\* C7 amended: the sources are probed in the order response_metadata.usage_metadata,
\* response_metadata.tokenUsage, llmOutput.tokenUsage, the direct usage object,
\* then the scan of top-level keys containing "token"; the first one present gives
\* the counts, so a direct usage object loses to one under response_metadata.
C7_MetadataBeforeDirect ==
    local.call = "resolved" =>
        LET r  == modelResponse
            um == r.response_metadata.usage_metadata
            mt == r.response_metadata.tokenUsage
            lt == r.llmOutput.tokenUsage
            du == r.usage
            sc == scanTokenKeys(r.extra)
            u  == local.tokenUsage
        IN
        /\ um.present
              => u = [inputTokens |-> um.f["input_tokens"],
                      outputTokens |-> um.f["output_tokens"],
                      totalTokens |-> um.f["total_tokens"]]
        /\ (~um.present /\ mt.present)
              => u = [inputTokens |-> OrNum(mt.f["promptTokens"], mt.f["inputTokens"]),
                      outputTokens |-> OrNum(mt.f["completionTokens"], mt.f["outputTokens"]),
                      totalTokens |-> mt.f["totalTokens"]]
        /\ (~um.present /\ ~mt.present /\ lt.present)
              => u = [inputTokens |-> OrNum(lt.f["promptTokens"], lt.f["inputTokens"]),
                      outputTokens |-> OrNum(lt.f["completionTokens"], lt.f["outputTokens"]),
                      totalTokens |-> lt.f["totalTokens"]]
        /\ (~um.present /\ ~mt.present /\ ~lt.present /\ du.present)
              => u = [inputTokens |-> OrNum(du.f["prompt_tokens"], du.f["input_tokens"]),
                      outputTokens |-> OrNum(du.f["completion_tokens"], du.f["output_tokens"]),
                      totalTokens |-> du.f["total_tokens"]]
        /\ (~um.present /\ ~mt.present /\ ~lt.present /\ ~du.present /\ sc.present)
              => u = fromTokenData(sc)
        /\ (~um.present /\ ~mt.present /\ ~lt.present /\ ~du.present /\ ~sc.present)
              => u = ZeroUsage

\* C7 witness: a direct usage object and a different one under response_metadata
\* were both there, and the counts are those of response_metadata
C7_Witness ==
    /\ local.call = "resolved"
    /\ modelResponse.usage = OpenAIUsage(5, 7, 12)
    /\ modelResponse.response_metadata.usage_metadata = Snake(12, 34, 46)
    /\ local.tokenUsage = [inputTokens |-> 12, outputTokens |-> 34, totalTokens |-> 46]

----------------------------------------------------------------------------
(* Claims about the conversation store (under SpecStore) *)

\* The messages of a table stored under a conversation id, oldest first
Under(msgs, id) == SelectSeq(msgs, LAMBDA m : m.conversationId = id)

\* The last operation was a saveMessage that inserted the newest message
Saved == last.op = "saveMessage" /\ last.outcome = "ok"
Newest == messages[Len(messages)]

\* A title as the store may show it: non-empty, at most 50 characters, no
\* trailing '.', '!' or '?'
WellFormedTitle(title) ==
    /\ title.present
    /\ Len(title.s) > 0 /\ Len(title.s) <= 50
    /\ title.s[Len(title.s)] \notin {".", "!", "?"}

\* C8: the first user message of a fresh conversation id gets a non-empty title
\* of at most 50 characters without trailing punctuation, and every later message
\* appended to that conversation carries that same title, whatever it says.
C8_FirstTitleIsCopiedForward ==
    Saved =>
        LET earlier == Under(last.before, last.conversationId) IN
        /\ (earlier = <<>> /\ Newest.role = "user")
              => WellFormedTitle(Newest.conversationTitle)
        /\ (earlier # <<>> /\ earlier[1].role = "user")
              => /\ WellFormedTitle(Newest.conversationTitle)
                 /\ \A i \in 1..Len(earlier) :
                        earlier[i].conversationTitle = Newest.conversationTitle

\* C8 witness: a second user message, whose own text would give another title,
\* was appended to a conversation that a user message had opened
C8_Witness ==
    /\ Saved /\ Newest.role = "user" /\ Newest.content = ContentBuild
    /\ Under(last.before, last.conversationId) # <<>>
    /\ Under(last.before, last.conversationId)[1].role = "user"
    /\ Under(last.before, last.conversationId)[1].content = ContentHelp
    /\ Newest.conversationTitle = TitleOf(HelpDiscussion)

\* The title the derivation is expected to give each text of the model
expectedTitle(content) ==
    CASE content = ContentHelp  -> HelpDiscussion
      [] content = ContentBuild -> ProjectCreation
      [] content = ContentSure  -> GeneralDiscussion

\* The positions of the user-role messages in a sequence of messages
UserPositions(msgs) == {i \in 1..Len(msgs) : msgs[i].role = "user"}
EarliestUser(msgs) == msgs[CHOOSE i \in UserPositions(msgs) :
                              \A j \in UserPositions(msgs) : i <= j]

Regenerated == last.op = "regenerateConversationTitle"

\* C9: regenerateTitle by an authenticated caller on a conversation that has a
\* user message succeeds; when the title action returns, the title is the one
\* derived from the earliest user message alone ("help me fix a bug" gives
\* "Help Discussion"), it is returned, and every message of the conversation,
\* of either role, carries it afterwards.
C9_RegenerateStampsEveryMessage ==
    (Regenerated /\ last.user \in Users
        /\ UserPositions(Under(last.before, last.conversationId)) # {}) =>
        LET conv  == Under(messages, last.conversationId)
            first == EarliestUser(Under(last.before, last.conversationId))
        IN
        /\ last.outcome = "ok"
        /\ Len(conv) = Len(Under(last.before, last.conversationId))
        /\ \A i \in 1..Len(conv) : conv[i].conversationTitle = last.title
        /\ last.titleAction = "returned" => last.title = TitleOf(expectedTitle(first.content))
        /\ (last.titleAction = "returned" /\ first.content = ContentHelp)
              => last.title.s = HelpDiscussion

\* C9 witness: a conversation of a user message "help me fix a bug" followed by
\* an assistant message, titled otherwise before, is all "Help Discussion" now
C9_Witness ==
    /\ Regenerated /\ last.outcome = "ok" /\ last.titleAction = "returned"
    /\ Len(Under(messages, last.conversationId)) = 2
    /\ Under(messages, last.conversationId)[1].content = ContentHelp
    /\ Under(messages, last.conversationId)[2].role = "assistant"
    /\ Under(last.before, last.conversationId)[2].conversationTitle = TitleOf(NewConversation)
    /\ Under(messages, last.conversationId)[2].conversationTitle = TitleOf(HelpDiscussion)

\* C10: regenerateTitle by an authenticated caller on a conversation id without
\* a user-role message (no message, or assistant messages only) fails with
\* NoUserMessages and leaves every stored message as it was.
C10_NoUserMessagesChangesNothing ==
    (Regenerated /\ last.user \in Users
        /\ UserPositions(Under(last.before, last.conversationId)) = {}) =>
        /\ last.outcome = "NoUserMessages"
        /\ messages = last.before

\* C10 witness: the conversation held an assistant message only
C10_Witness ==
    /\ Regenerated /\ last.outcome = "NoUserMessages"
    /\ Under(messages, last.conversationId) # <<>>
    /\ \A i \in 1..Len(messages) : messages[i].role = "assistant"

\* C11: deleteConversation by an authenticated caller who owns a message under
\* the id removes every message stored under it, those of other users too, and
\* returns the number of messages removed; by a caller who owns none (also when
\* the id has no message) it fails with NotFoundOrForbidden, the store unchanged.
C11_DeleteAllOrNothing ==
    (last.op = "deleteConversation" /\ last.user \in Users) =>
        LET under == Under(last.before, last.conversationId)
            owns  == \E i \in 1..Len(under) : under[i].userId = last.user
        IN  IF owns
            THEN /\ last.outcome = "ok"
                 /\ Under(messages, last.conversationId) = <<>>
                 /\ messages = SelectSeq(last.before,
                                   LAMBDA m : m.conversationId # last.conversationId)
                 /\ last.deleted = Len(under)
                 /\ last.deleted = Len(last.before) - Len(messages)
            ELSE /\ last.outcome = "NotFoundOrForbidden"
                 /\ messages = last.before

\* C11 witness: the caller owned one of two messages under the id, the other
\* belonged to another user, and both are gone
C11_Witness ==
    /\ last.op = "deleteConversation" /\ last.outcome = "ok" /\ last.deleted = 2
    /\ \E i \in 1..Len(last.before) :
          /\ last.before[i].conversationId = last.conversationId
          /\ last.before[i].userId # last.user
    /\ messages = <<>>

\* The caller of the last operation owned no message under its conversation id
OwnsNone == \A i \in 1..Len(last.before) :
                last.before[i].conversationId = last.conversationId
                    => last.before[i].userId # last.user

\* C12: regenerateTitle by an authenticated caller on a conversation (with a
\* user message) in which the caller owns no message fails with
\* NotFoundOrForbidden and leaves every stored title as it was.
C12_ForeignRegenerateIsRefused ==
    (Regenerated /\ last.user \in Users /\ OwnsNone
        /\ UserPositions(Under(last.before, last.conversationId)) # {}) =>
        /\ last.outcome = "NotFoundOrForbidden"
        /\ messages = last.before

----------------------------------------------------------------------------
(* Claims about the queries (under SpecQuery) *)

Listed == last.op = "getUserConversations" /\ last.user \in Users

\* The creation times of a user's messages under a conversation id
OwnTimes(msgs, user, id) ==
    {msgs[i]._creationTime : i \in {j \in 1..Len(msgs) :
        msgs[j].userId = user /\ msgs[j].conversationId = id}}
Latest(times)   == CHOOSE t \in times : \A u \in times : u <= t
Earliest(times) == CHOOSE t \in times : \A u \in times : t <= u

\* C13: listUserConversations orders the caller's conversations by most recent
\* activity, newest first: whenever the caller's newest message in A was created
\* after the caller's newest message in B, A comes before B in the result,
\* whenever the first messages were created.
C13_NewestActivityFirst ==
    Listed =>
        \A i, j \in 1..Len(last.returned) :
            LET A == OwnTimes(last.before, last.user, last.returned[i].conversationId)
                B == OwnTimes(last.before, last.user, last.returned[j].conversationId)
            IN  (A # {} /\ B # {} /\ Latest(A) > Latest(B)) => i < j

\* C13 witness: the conversation listed first was opened before the one listed
\* second, and has the newer last message
C13_Witness ==
    /\ Listed /\ Len(last.returned) = 2
    /\ LET A == OwnTimes(last.before, last.user, last.returned[1].conversationId)
           B == OwnTimes(last.before, last.user, last.returned[2].conversationId)
       IN  Earliest(A) < Earliest(B) /\ Latest(A) > Latest(B)

\* C14: listUserConversations returns one summary per conversation id among the
\* caller's own messages; in each, lastMessage is the caller's newest message
\* under the id, messageCount counts the caller's messages under the id (not
\* those of other users), and createdAt is the creation time of lastMessage.
C14_OneSummaryPerOwnConversation ==
    Listed =>
        LET own == {id \in ConversationIds : OwnTimes(last.before, last.user, id) # {}}
        IN
        /\ {last.returned[i].conversationId : i \in 1..Len(last.returned)} = own
        /\ Len(last.returned) = Cardinality(own)
        /\ \A i \in 1..Len(last.returned) :
              LET summary == last.returned[i]
                  times   == OwnTimes(last.before, last.user, summary.conversationId)
              IN  /\ \E k \in 1..Len(last.before) : last.before[k] = summary.lastMessage
                  /\ summary.lastMessage.userId = last.user
                  /\ summary.lastMessage.conversationId = summary.conversationId
                  /\ summary.lastMessage._creationTime = Latest(times)
                  /\ summary.messageCount = Cardinality(times)
                  /\ summary.createdAt = summary.lastMessage._creationTime

\* C14 witness: a summary counts the caller's two messages of a conversation
\* that holds a third, newer message of another user
C14_Witness ==
    /\ Listed
    /\ \E i \in 1..Len(last.returned) :
          /\ last.returned[i].messageCount = 2
          /\ Len(Under(last.before, last.returned[i].conversationId)) = 3
          /\ last.returned[i].createdAt = 2

\* C16: listConversationMessages(id) returns the stored messages whose
\* conversation id is id, each once, oldest first, whoever calls it.
C16_AllMessagesOfIdAscending ==
    last.op = "getConversationMessages" =>
        LET r == last.returned IN
        /\ \A k \in 1..Len(last.before) :
              last.before[k].conversationId = last.conversationId
                  => Cardinality({i \in 1..Len(r) : r[i] = last.before[k]}) = 1
        /\ \A i \in 1..Len(r) :
              /\ r[i].conversationId = last.conversationId
              /\ \E k \in 1..Len(last.before) : last.before[k] = r[i]
        /\ \A i, j \in 1..Len(r) : i < j => r[i]._creationTime < r[j]._creationTime

\* C16 witness: a caller without a user reads two messages of two users, while
\* the table holds a message of another conversation
C16_Witness ==
    /\ last.op = "getConversationMessages" /\ last.user = NoUser
    /\ Len(last.returned) = 2 /\ Len(last.before) = 3
    /\ last.returned[1].userId # last.returned[2].userId

RECURSIVE SumOfCounts(_)
SumOfCounts(summaries) ==
    IF summaries = <<>> THEN 0
    ELSE Head(summaries).messageCount + SumOfCounts(Tail(summaries))

\* C29: getUserChatStats agrees with listUserConversations on every table: for
\* an authenticated user totalConversations is the number of summaries,
\* totalMessages the sum of their messageCount, lastActivity the createdAt of
\* the first summary (null without summaries); without a user the stats are
\* all zero with lastActivity null and the list is empty.
C29_StatsAgreeWithList ==
    last.op = "getUserChatStats" =>
        LET stats == last.returned
            list  == getUserConversations(last.before, last.user)
        IN  IF last.user \in Users
            THEN /\ stats.totalConversations = Len(list)
                 /\ stats.totalMessages = SumOfCounts(list)
                 /\ stats.lastActivity = IF list = <<>> THEN NoActivity
                                         ELSE ActivityAt(list[1].createdAt)
            ELSE /\ list = <<>>
                 /\ stats.totalMessages = 0 /\ stats.totalConversations = 0
                 /\ stats.totalTokensUsed = 0 /\ stats.averageResponseTime = 0
                 /\ stats.lastActivity = NoActivity

\* C29 witness: the stats of a user with three messages in two conversations
C29_Witness ==
    /\ last.op = "getUserChatStats" /\ last.user \in Users
    /\ last.returned.totalMessages = 3 /\ last.returned.totalConversations = 2
    /\ last.returned.lastActivity = ActivityAt(3)

----------------------------------------------------------------------------
(* Further claims about the conversation store (under SpecStore) *)

Mutations == {"saveMessage", "deleteConversation", "regenerateConversationTitle"}

\* C15: appendMessage, deleteConversation and regenerateTitle called without a
\* resolvable user each fail with Unauthenticated, and the store is exactly as
\* it was: nothing inserted, deleted or patched, and no title derived.
C15_UnauthenticatedChangesNothing ==
    (last.op \in Mutations /\ last.user = NoUser) =>
        /\ last.outcome = "Unauthenticated"
        /\ messages = last.before
        /\ last.titleAction = "none"
        /\ last.title = NoTitle
        /\ last.deleted = 0

\* C15 witness: regenerateTitle without a user on a conversation that holds a
\* user message, which an authenticated call would have retitled
C15_Witness ==
    /\ Regenerated /\ last.user = NoUser /\ last.outcome = "Unauthenticated"
    /\ UserPositions(Under(messages, last.conversationId)) # {}

\* C17: in every reachable state of the store, the messages of one conversation
\* id that carry a title all carry the same title.
C17_OneTitlePerConversation ==
    \A i, j \in 1..Len(messages) :
        (/\ messages[i].conversationId = messages[j].conversationId
         /\ messages[i].conversationTitle.present
         /\ messages[j].conversationTitle.present)
            => messages[i].conversationTitle = messages[j].conversationTitle

\* C17 witness: regenerateTitle has given the two messages of a conversation a
\* title other than the one they carried
C17_Witness ==
    /\ Regenerated /\ last.outcome = "ok"
    /\ Len(Under(messages, last.conversationId)) = 2
    /\ Under(last.before, last.conversationId)[1].conversationTitle.present
    /\ Under(last.before, last.conversationId)[2].conversationTitle.present
    /\ Under(last.before, last.conversationId)[1].conversationTitle
          # Under(messages, last.conversationId)[1].conversationTitle

\* C18: when the title action raises, appendMessage of the first user message
\* still inserts the message, titled "New Conversation", and regenerateTitle
\* still succeeds and stamps "New Conversation" on every message.
C18_TitleFailureIsSwallowed ==
    last.titleAction = "raised" =>
        /\ last.outcome = "ok"
        /\ last.title = TitleOf(NewConversation)
        /\ last.op = "saveMessage" =>
              /\ Len(messages) = Len(last.before) + 1
              /\ SubSeq(messages, 1, Len(last.before)) = last.before
              /\ Newest.conversationId = last.conversationId
              /\ Newest.conversationTitle = TitleOf(NewConversation)
        /\ last.op = "regenerateConversationTitle" =>
              /\ Len(messages) = Len(last.before)
              /\ \A i \in 1..Len(messages) :
                    messages[i].conversationId = last.conversationId
                        => messages[i].conversationTitle = TitleOf(NewConversation)

\* C18 witness: the action raised while regenerateTitle ran on a conversation
\* of two messages titled "Help Discussion"
C18_Witness ==
    /\ Regenerated /\ last.titleAction = "raised" /\ last.outcome = "ok"
    /\ Len(Under(last.before, last.conversationId)) = 2
    /\ Under(last.before, last.conversationId)[2].conversationTitle = TitleOf(HelpDiscussion)
    /\ Under(messages, last.conversationId)[2].conversationTitle = TitleOf(NewConversation)

----------------------------------------------------------------------------
(* Claims about the title action (under SpecTitle) *)

\* The topic keywords in their fixed order, and the title each one gives
Topics == <<
    <<"h","e","l","p">>,
    <<"q","u","e","s","t","i","o","n">>,
    <<"e","x","p","l","a","i","n">>,
    <<"h","o","w">>,
    <<"w","h","a","t">>,
    <<"w","h","y">>,
    <<"c","o","d","e">>,
    <<"p","r","o","g","r","a","m","m","i","n","g">>,
    <<"d","e","s","i","g","n">>,
    <<"b","u","s","i","n","e","s","s">>,
    <<"w","r","i","t","i","n","g">>,
    <<"a","n","a","l","y","s","i","s">>,
    <<"r","e","s","e","a","r","c","h">>,
    <<"l","e","a","r","n","i","n","g">> >>
TopicTitles == <<
    <<"H","e","l","p"," ","D","i","s","c","u","s","s","i","o","n">>,
    <<"Q","u","e","s","t","i","o","n"," ","D","i","s","c","u","s","s","i","o","n">>,
    <<"E","x","p","l","a","i","n"," ","D","i","s","c","u","s","s","i","o","n">>,
    <<"H","o","w"," ","D","i","s","c","u","s","s","i","o","n">>,
    <<"W","h","a","t"," ","D","i","s","c","u","s","s","i","o","n">>,
    <<"W","h","y"," ","D","i","s","c","u","s","s","i","o","n">>,
    <<"C","o","d","e"," ","D","i","s","c","u","s","s","i","o","n">>,
    <<"P","r","o","g","r","a","m","m","i","n","g"," ","D","i","s","c","u","s","s","i","o","n">>,
    <<"D","e","s","i","g","n"," ","D","i","s","c","u","s","s","i","o","n">>,
    <<"B","u","s","i","n","e","s","s"," ","D","i","s","c","u","s","s","i","o","n">>,
    <<"W","r","i","t","i","n","g"," ","D","i","s","c","u","s","s","i","o","n">>,
    <<"A","n","a","l","y","s","i","s"," ","D","i","s","c","u","s","s","i","o","n">>,
    <<"R","e","s","e","a","r","c","h"," ","D","i","s","c","u","s","s","i","o","n">>,
    <<"L","e","a","r","n","i","n","g"," ","D","i","s","c","u","s","s","i","o","n">> >>
CreateGroup == {<<"c","r","e","a","t","e">>, <<"b","u","i","l","d">>, <<"m","a","k","e">>}
FixGroup    == {<<"f","i","x">>, <<"d","e","b","u","g">>, <<"e","r","r","o","r">>}
LearnGroup  == {<<"l","e","a","r","n">>, <<"t","e","a","c","h">>, <<"t","u","t","o","r","i","a","l">>}

\* A word occurs in a text at some position
Occurs(text, w) == \E i \in 1..Len(text) :
                      i + Len(w) - 1 <= Len(text) /\ SubSeq(text, i, i + Len(w) - 1) = w
\* The position of the first occurrence
FirstAt(text, w) == CHOOSE i \in 1..Len(text) :
                        /\ i + Len(w) - 1 <= Len(text) /\ SubSeq(text, i, i + Len(w) - 1) = w
                        /\ \A h \in 1..(i - 1) : SubSeq(text, h, h + Len(w) - 1) # w

\* C19: the title is Capitalize(k) + " Discussion" for the topic keyword k that
\* comes first in the fixed list among those the lower-cased message contains,
\* wherever they stand in the message; the groups create/build/make, fix/debug/
\* error and learn/teach/tutorial are consulted in that order only when no topic
\* keyword occurs; without any match the title is "General Discussion".
C19_ListOrderDecides ==
    last.op = "generateTitle" =>
        LET text  == toLowerCase(last.prompt)
            found == {i \in 1..Len(Topics) : Occurs(text, Topics[i])}
        IN  IF found # {}
            THEN last.returned = TopicTitles[CHOOSE i \in found : \A j \in found : i <= j]
            ELSE IF \E w \in CreateGroup : Occurs(text, w)
            THEN last.returned = ProjectCreation
            ELSE IF \E w \in FixGroup : Occurs(text, w)
            THEN last.returned = ProblemSolving
            ELSE IF \E w \in LearnGroup : Occurs(text, w)
            THEN last.returned = LearningSession
            ELSE last.returned = GeneralDiscussion

\* C19 witness: "why" stands before "help" in the message, "help" before "why"
\* in the list, and the title is "Help Discussion"
C19_Witness ==
    /\ last.op = "generateTitle"
    /\ Occurs(last.prompt, <<"w","h","y">>) /\ Occurs(last.prompt, <<"h","e","l","p">>)
    /\ FirstAt(last.prompt, <<"w","h","y">>) < FirstAt(last.prompt, <<"h","e","l","p">>)
    /\ last.returned = HelpDiscussion

----------------------------------------------------------------------------
(* Claims about the streaming endpoint (under SpecHttp) *)

\* C20: in the streaming endpoint, once the upstream call has raised, after
\* zero or more chunks, the response stream is errored and not closed; until
\* the next request nothing more is emitted and no further upstream call is
\* started.
C20_RaisedStreamStaysErrored ==
    [][/\ stream'.upstream = "raised" =>
              /\ stream'.state = "errored"
              /\ calls' = 1
              /\ stream'.produced = stream.produced
              /\ stream'.emitted = stream.emitted
       /\ stream.upstream = "raised" =>
              \/ stream' = stream /\ calls' = calls
              \/ pc' = "idle" /\ stream' = NoStream]_vars

\* C20 witness: the upstream iteration raised after one chunk had been emitted
C20_Witness ==
    /\ endpoint = "stream" /\ stream.upstream = "raised" /\ stream.state = "errored"
    /\ Len(stream.emitted) = 1 /\ calls = 1 /\ pc = "done"

\* The UTF-8 bytes of the chunks the upstream iteration yields
Utf8Of(chunk) == IF chunk = <<"a">> THEN <<97>> ELSE <<98, 195, 169>>
Ended(s) == s.state \in {"closed", "errored"}

\* C23: for a streaming request with non-empty input the bytes emitted are the
\* upstream chunks in the order they were produced, each once; the stream ends
\* once, by a clean close when the upstream iteration has ended normally or by
\* an error, and nothing is emitted after either.
C23_ChunksInOrderThenOneEnd ==
    [][/\ Len(stream'.emitted) = Len(stream'.produced)
       /\ \A i \in 1..Len(stream'.produced) :
              stream'.emitted[i] = Utf8Of(stream'.produced[i])
       /\ stream'.state = "closed" => stream'.upstream = "exhausted"
       /\ stream'.upstream = "exhausted" => stream'.state = "closed"
       /\ stream.state = "open" =>
              \/ stream'.produced = stream.produced
              \/ /\ ~Ended(stream')
                 /\ Len(stream'.produced) = Len(stream.produced) + 1
                 /\ SubSeq(stream'.produced, 1, Len(stream.produced)) = stream.produced
       /\ Ended(stream) =>
              \/ stream' = stream
              \/ pc' = "idle" /\ stream' = NoStream]_vars

\* C23 witness: two different chunks were emitted in their order and the stream
\* was closed
C23_Witness ==
    /\ stream.state = "closed" /\ Len(stream.produced) = 2
    /\ stream.produced[1] # stream.produced[2]
    /\ stream.emitted = <<Utf8Of(stream.produced[1]), Utf8Of(stream.produced[2])>>

\* C24: a request to either endpoint whose body cannot be parsed as JSON is
\* answered with status 400 by the handler, without a provider call, like a
\* request with empty input.
C24_MalformedBodyIs400 ==
    (pc = "done" /\ req.kind = "malformed") =>
        /\ resp.status = 400
        /\ resp.kind # "unhandled"
        /\ calls = 0

----------------------------------------------------------------------------
(* Frame of the store operations (under SpecStore) *)

\* A message with its title left out
Untitled(m) == [m EXCEPT !.conversationTitle = NoTitle]
\* The messages of a table stored under another conversation id
Elsewhere(msgs, id) == SelectSeq(msgs, LAMBDA m : m.conversationId # id)

\* C21: a stored message changes after insertion in its title only:
\* appendMessage inserts one new message and changes no existing one;
\* regenerateTitle changes titles only, and only under the id given;
\* deleteConversation removes messages of the id given only, and all of them or
\* none; a failed operation changes nothing.
C21_OnlyTitlesChange ==
    /\ last.op = "saveMessage" =>
          IF last.outcome = "ok"
          THEN /\ Len(messages) = Len(last.before) + 1
               /\ SubSeq(messages, 1, Len(last.before)) = last.before
          ELSE messages = last.before
    /\ last.op = "regenerateConversationTitle" =>
          /\ Len(messages) = Len(last.before)
          /\ \A i \in 1..Len(messages) :
                /\ Untitled(messages[i]) = Untitled(last.before[i])
                /\ messages[i].conversationId # last.conversationId
                      => messages[i] = last.before[i]
    /\ last.op = "deleteConversation" =>
          /\ Elsewhere(messages, last.conversationId)
                = Elsewhere(last.before, last.conversationId)
          /\ \/ Under(messages, last.conversationId) = <<>>
             \/ messages = last.before

\* C21 witness: regenerateTitle has changed the title of the one message of a
\* conversation, and the message of the other conversation is as it was
C21_Witness ==
    /\ Regenerated /\ last.outcome = "ok" /\ Len(messages) = 2
    /\ messages[1].conversationId = last.conversationId
    /\ messages[2].conversationId # last.conversationId
    /\ messages[1].conversationTitle # last.before[1].conversationTitle
    /\ messages[2].conversationTitle.present
    /\ messages[2] = last.before[2]

----------------------------------------------------------------------------
(* Claims about saveMessage alone (under SpecAppend) *)

\* C25: after saveMessage calls of authenticated users only, every
\* conversation that holds a user-role message has a non-empty title on its
\* newest message, also when an assistant-role message was stored first.
C25_UserConversationsAreTitled ==
    \A id \in ConversationIds :
        LET conv == Under(messages, id)
        IN  UserPositions(conv) # {} => truthy(conv[Len(conv)].conversationTitle)

----------------------------------------------------------------------------
(* A further claim about the Completion Client (under SpecHttp) *)

\* C30: in every successful result of complete the text and the token counts
\* come from the same provider response: the text is that of the response of
\* model.invoke, and so are the counts.
C30_TextAndCountsOfOneCall ==
    Completed =>
        /\ result.text = modelResponse.content
        /\ result.tokensUsed = local.tokenUsage.totalTokens
        /\ result.inputTokens = local.tokenUsage.inputTokens
        /\ result.outputTokens = local.tokenUsage.outputTokens

----------------------------------------------------------------------------
(* Claims about the chat page (under SpecUi and SpecUiLive) *)

\* The submissions of the page, and those still awaiting something
Subs     == {ui.subs[i] : i \in 1..Len(ui.subs)}
InFlight == {i \in 1..Len(ui.subs) : ui.subs[i].step # "done"}
\* The stored messages created at a time
CreatedAt(t) == {messages[k] : k \in {j \in 1..Len(messages) : messages[j]._creationTime = t}}

\* C22: every submission whose user message was persisted ends with one
\* persisted assistant message, also when the reply failed (non-2xx status,
\* error body, or a failed request).
C22_FailedRepliesArePersisted ==
    \A sub \in Subs :
        (sub.step = "done" /\ sub.userAt # 0
            /\ sub.reply \in {"notOk", "errorBody", "rejected"})
            => sub.assistantAt # 0

\* C26: the earliest stored message of every non-empty conversation has role
\* user, whatever the user does on the page while a submission is in flight.
C26_ConversationsStartWithUser ==
    \A id \in PageIds :
        Under(messages, id) # <<>> => Under(messages, id)[1].role = "user"

\* C27: the assistant message of a submission is persisted under the
\* conversation id of its user message, which is also the id sent to the
\* endpoint, wherever the page has gone in the meantime.
C27_ReplyUnderTheSubmissionsId ==
    \A sub \in Subs :
        /\ sub.userAt # 0 =>
              /\ sub.savedUnder = sub.id /\ sub.sentId = sub.savedUnder
              /\ \A m \in CreatedAt(sub.userAt) :
                    m.role = "user" /\ m.conversationId = sub.savedUnder
        /\ sub.assistantAt # 0 =>
              /\ sub.userAt # 0
              /\ sub.repliedUnder = sub.savedUnder
              /\ \A m \in CreatedAt(sub.assistantAt) :
                    m.role = "assistant" /\ m.conversationId = sub.savedUnder

\* C27 witness: the page showed another conversation when the assistant
\* message was saved, and both messages are stored under the first id
C27_Witness ==
    \E sub \in Subs :
        /\ sub.assistantAt # 0 /\ sub.pageAt # sub.savedUnder
        /\ \E m \in CreatedAt(sub.userAt) : m.conversationId = sub.savedUnder
        /\ \E m \in CreatedAt(sub.assistantAt) : m.conversationId = sub.savedUnder

\* C28: at most one submission is in flight at any time, a submit while loading
\* is ignored and persists nothing, and on every path of a submission loading
\* returns to false.
C28_OneSubmissionAtATime ==
    /\ [](Cardinality(InFlight) <= 1 /\ (ui.loading <=> InFlight # {}))
    /\ [][/\ ui.loading => Len(ui'.subs) = Len(ui.subs)
          /\ ui'.event \in {"ignoredBusy", "ignoredEmpty"} =>
                /\ messages' = messages
                /\ ui' = [ui EXCEPT !.event = ui'.event]]_vars
    /\ (ui.loading ~> ~ui.loading)

\* C28 witness: a submit was ignored while the first submission awaited its
\* reply
C28_Witness ==
    /\ ui.event = "ignoredBusy" /\ ui.loading
    /\ Len(ui.subs) = 1 /\ ui.subs[1].step = "fetch"

====
